---- MODULE Spec2Model ----
(***************************************************************************)
(* The agent VM of src/src/runtime.ts as a state machine: AgentVM.run,     *)
(* the atom executor of defineAtom, the flow atoms (seq, if, while,        *)
(* return, try, scope, map), the state atoms (var.set, var.get), push and  *)
(* http.fetch, with the expression evaluator and the value resolver as     *)
(* operators.                                                              *)
(*                                                                         *)
(* A run is an async call chain.  stack[r] holds its frames, innermost     *)
(* last: "exec" a pending atom.exec(step, ctx), "seq" the for loop of seq, *)
(* "while", "try", "scope", "map" an atom awaiting its inline seq.exec.    *)
(* ctxs[r] holds every RuntimeContext the run has created; a context's     *)
(* state is its own properties plus the index of the context whose state   *)
(* is its prototype.                                                       *)
(***************************************************************************)
EXTENDS Integers, Sequences, FiniteSets, TLC

VARIABLES
  status,        \* per run: "idle", "running", "done" (run resolved), "failed" (run rejected)
  ast,           \* per run: the root node given to run()
  astOf,         \* per run: which AST object was given (two runs may be given the same one)
  args,          \* per run: the args given to run()
  capabilities,  \* per run: options.capabilities, as the behaviour of each capability
  fuel0,         \* per run: options.fuel
  ctxs,          \* per run: the RuntimeContexts created so far; ctxs[r][1] is the root context
  stack,         \* per run: the pending calls, innermost last
  exc,           \* per run: the message of the error being thrown, "" when none
  error,         \* per run: the message run() rejected with
  result,        \* per run: the value run() resolved with (ctx.output)
  log,           \* per run: history, every step seq handed to atom.exec, in order
  ran,           \* per run: history, the steps whose atom body fn has run (validation passed)
  calls,         \* per run: history, every capability call made
  thrown,        \* per run: history, the errors thrown and what each reached
  abandoned,     \* per run: the capability calls still pending whose atom has timed out
  customAtoms,   \* the VM: the ops of the custom atoms its constructor was given
  impl,          \* per run: history, each op whose exec was called, with the atom that was called
  expr,          \* a call of evaluateExpression by itself: the tokens of its expr
  exprVars,      \* that call's vars
  exprValue,     \* that call's outcome, once it has returned or thrown
  litsAtStart,   \* per run: history, the AST's array literals as they were when run() was called
  astLists       \* per AST object: the current contents of its array literals (push appends in place)

vars == <<status, ast, astOf, args, capabilities, fuel0, ctxs, stack, exc, error, result, log, ran, calls, thrown, abandoned, customAtoms, impl, expr, exprVars, exprValue, litsAtStart, astLists>>

\* ------------------------------------------------------------------ bounds

MaxFuel == 5
MaxBody == 2
MaxLeafSeq == 3

\* ------------------------------------------------------------------ values

\* A JavaScript value: its type, and its number or its string.  An array literal
\* of the AST is known by identity (n is its id, its contents are in astLists);
\* an array built at run time is held by value in l.
Undefined == [t |-> "undefined", n |-> 0, s |-> ""]
Null == [t |-> "null", n |-> 0, s |-> ""]
Num(i) == [t |-> "number", n |-> i, s |-> ""]
Str(x) == [t |-> "string", n |-> 0, s |-> x]
Bool(b) == [t |-> "boolean", n |-> IF b THEN 1 ELSE 0, s |-> ""]
ArgRef(p) == [t |-> "arg", n |-> 0, s |-> p]
AstList(id) == [t |-> "array", n |-> id, s |-> "ast"]
Arr(l) == [t |-> "array", n |-> 0, s |-> "", l |-> l]

\* v ?? d
Nullish(v) == v.t \in {"undefined", "null"}

Last(q) == q[Len(q)]
Front(q) == SubSeq(q, 1, Len(q) - 1)
EmptyObj == [k \in {} |-> Undefined]

\* obj[key], undefined when obj has no such property
Prop(obj, key) == IF key \in DOMAIN obj THEN obj[key] ELSE Undefined

\* ------------------------------------------------------------------ expression evaluator

\* A token of the tokenizer's output: a numeric literal, an identifier, or an
\* operator or parenthesis.
TNum(i) == [t |-> "num", n |-> i, s |-> ""]
TId(x) == [t |-> "id", n |-> 0, s |-> x]
TOp(o) == [t |-> "op", n |-> 0, s |-> o]

precedence(o) ==
  CASE o = "*" -> 3
    [] o \in {"+", "-"} -> 2
    [] o \in {">", "<", ">=", "<=", "==", "!="} -> 1
    [] OTHER -> 0

\* Number(s) of the strings that are numerals; of every other string used
\* here it is NaN, or 0 for ''
NumericStrings == [s \in {"5"} |-> 5]

\* Number(v) with NaN turned into 0; lits holds the AST's array literals.
ToNumber(v, lits) ==
  CASE v.t = "number" -> v.n
    [] v.t = "boolean" -> v.n
    [] v.t = "string" -> IF v.s \in DOMAIN NumericStrings THEN NumericStrings[v.s] ELSE 0
    [] v.t = "array" ->
         LET l == IF v.s = "ast" THEN lits[v.n] ELSE v.l
         IN IF Len(l) = 1 /\ l[1].t = "number" THEN l[1].n ELSE 0
    [] OTHER -> 0

\* One applyOp on the evaluator's two stacks; err is set when it throws.
applyOp(st) ==
  LET nv == Len(st.values)
      no == Len(st.ops)
  IN IF nv < 2 \/ no = 0
       THEN [st EXCEPT !.err = TRUE]
       ELSE LET b == st.values[nv]
                a == st.values[nv - 1]
                op == st.ops[no]
                rest == SubSeq(st.values, 1, nv - 2)
                t(c) == IF c THEN 1 ELSE 0
                out == CASE op = "+" -> Append(rest, a + b)
                         [] op = "-" -> Append(rest, a - b)
                         [] op = "*" -> Append(rest, a * b)
                         [] op = ">" -> Append(rest, t(a > b))
                         [] op = "<" -> Append(rest, t(a < b))
                         [] op = ">=" -> Append(rest, t(a >= b))
                         [] op = "<=" -> Append(rest, t(a <= b))
                         [] op = "==" -> Append(rest, t(a = b))
                         [] op = "!=" -> Append(rest, t(a # b))
                         [] OTHER -> rest
            IN [st EXCEPT !.values = out, !.ops = Front(st.ops)]

RECURSIVE ReduceToParen(_)
ReduceToParen(st) ==
  IF st.err \/ Len(st.ops) = 0 \/ Last(st.ops) = "("
    THEN st
    ELSE ReduceToParen(applyOp(st))

RECURSIVE ReduceByPrecedence(_, _)
ReduceByPrecedence(st, o) ==
  IF st.err \/ Len(st.ops) = 0 \/ Last(st.ops) = "(" \/ precedence(Last(st.ops)) < precedence(o)
    THEN st
    ELSE ReduceByPrecedence(applyOp(st), o)

RECURSIVE ReduceAll(_)
ReduceAll(st) ==
  IF st.err \/ Len(st.ops) = 0 THEN st ELSE ReduceAll(applyOp(st))

\* The body of the loop over the tokens.
EvalToken(st, tok, vs, lits) ==
  CASE tok.t = "num" -> [st EXCEPT !.values = Append(@, tok.n)]
    [] tok.t = "op" /\ tok.s = "(" -> [st EXCEPT !.ops = Append(@, "(")]
    [] tok.t = "op" /\ tok.s = ")" ->
         LET s1 == ReduceToParen(st)
         IN IF Len(s1.ops) = 0 THEN s1 ELSE [s1 EXCEPT !.ops = Front(@)]
    [] tok.t = "op" /\ precedence(tok.s) > 0 ->
         LET s1 == ReduceByPrecedence(st, tok.s)
         IN [s1 EXCEPT !.ops = Append(@, tok.s)]
    [] OTHER ->
         LET v == Prop(vs, tok.s)
         IN [st EXCEPT !.values = Append(@, IF Nullish(v) THEN 0 ELSE ToNumber(v, lits))]

RECURSIVE EvalTokens(_, _, _, _, _)
EvalTokens(st, tokens, i, vs, lits) ==
  IF st.err \/ i > Len(tokens)
    THEN st
    ELSE \* the stacks after this token, computed once, go to the next token
         CHOOSE out \in {EvalTokens(s1, tokens, i + 1, vs, lits) : s1 \in {EvalToken(st, tokens[i], vs, lits)}} : TRUE

\* evaluateExpression on the token list of expr: [err, v], err when it throws
\* 'Expr: Invalid op'.
evaluateExpression(tokens, vs, lits) ==
  IF Len(tokens) = 0
    THEN [err |-> FALSE, v |-> 0]
    ELSE LET st == ReduceAll(EvalTokens([ops |-> <<>>, values |-> <<>>, err |-> FALSE], tokens, 1, vs, lits))
         IN IF st.err THEN [err |-> TRUE, v |-> 0]
            ELSE [err |-> FALSE, v |-> IF Len(st.values) = 0 THEN 0 ELSE st.values[1]]

\* ------------------------------------------------------------------ a run's machine

\* ctx.output of a fresh context, and ctx.output once `return` has assigned res
NoOutput == [set |-> FALSE, val |-> EmptyObj]
Output(res) == [set |-> TRUE, val |-> res]
Obj(res) == [t |-> "object", n |-> 0, s |-> "", o |-> res]

\* Everything one run reads and writes, as one record: the run's own variables
\* and the array literals of the AST object it was given.
M(r) ==
  [status |-> status[r], args |-> args[r], capabilities |-> capabilities[r],
   ctxs |-> ctxs[r], stack |-> stack[r], exc |-> exc[r], error |-> error[r],
   result |-> result[r], log |-> log[r], ran |-> ran[r], calls |-> calls[r],
   thrown |-> thrown[r], abandoned |-> abandoned[r], customAtoms |-> customAtoms,
   impl |-> impl[r], lits |-> astLists[astOf[r]]]

Commit(r, m) ==
  /\ status' = [status EXCEPT ![r] = m.status]
  /\ ctxs' = [ctxs EXCEPT ![r] = m.ctxs]
  /\ stack' = [stack EXCEPT ![r] = m.stack]
  /\ exc' = [exc EXCEPT ![r] = m.exc]
  /\ error' = [error EXCEPT ![r] = m.error]
  /\ result' = [result EXCEPT ![r] = m.result]
  /\ log' = [log EXCEPT ![r] = m.log]
  /\ ran' = [ran EXCEPT ![r] = m.ran]
  /\ calls' = [calls EXCEPT ![r] = m.calls]
  /\ thrown' = [thrown EXCEPT ![r] = m.thrown]
  /\ abandoned' = [abandoned EXCEPT ![r] = m.abandoned]
  /\ impl' = [impl EXCEPT ![r] = m.impl]
  /\ astLists' = [astLists EXCEPT ![astOf[r]] = m.lits]
  /\ UNCHANGED <<ast, astOf, args, capabilities, fuel0, customAtoms, litsAtStart, expr, exprVars, exprValue>>

Top(m) == Last(m.stack)

\* ctx.state[key]: the context's own property, else its prototype chain's
RECURSIVE Lookup(_, _, _)
Lookup(cs, c, key) ==
  IF key \in DOMAIN cs[c].state THEN cs[c].state[key]
  ELSE IF cs[c].parent = 0 THEN Undefined
  ELSE Lookup(cs, cs[c].parent, key)

\* The nearest context on c's prototype chain that has `key` as its own property
RECURSIVE Owner(_, _, _)
Owner(cs, c, key) ==
  IF key \in DOMAIN cs[c].state \/ cs[c].parent = 0 THEN c ELSE Owner(cs, cs[c].parent, key)

\* An assignment that updates the binding it finds on the prototype chain, and
\* makes an own property only when there is none
SetStateInherited(m, c, key, v) ==
  LET o == Owner(m.ctxs, c, key)
      target == IF key \in DOMAIN m.ctxs[o].state THEN o ELSE c
  IN [m EXCEPT !.ctxs[target].state = (key :> v) @@ @]

\* ctx.state[key] = v: an assignment makes or updates an own property of
\* the context's state object, whatever its prototype chain holds
SetState(m, c, key, v) ==
  [m EXCEPT !.ctxs[c].state = (key :> v) @@ @]

\* A child scope that is handed one unit of fuel more than its parent holds
createChildScopeRefuelled(cx, c) ==
  [fuel |-> cx.fuel + 1, state |-> EmptyObj, parent |-> c, output |-> cx.output]

\* createChildScope: { ...ctx, state: Object.create(ctx.state) }, the fuel and
\* the output copied by value
createChildScope(cx, c) ==
  [fuel |-> cx.fuel, state |-> EmptyObj, parent |-> c, output |-> cx.output]

\* The strings of the model that begin with 'args.', with the rest of each
ArgsSuffix == [s \in {"args.url", "args.key"} |-> IF s = "args.url" THEN "url" ELSE "key"]

resolveValue(val, m, c) ==
  IF val.t = "arg" THEN Prop(m.args, val.s)
  ELSE IF val.t = "string"
    THEN IF val.s \in DOMAIN ArgsSuffix
           THEN Prop(m.args, ArgsSuffix[val.s])
           ELSE LET v == Lookup(m.ctxs, c, val.s)
                IN IF Nullish(v) THEN val ELSE v
  ELSE val

\* vars[k] = resolveValue(v, ctx) for every entry of step.vars
ResolveVars(vs, m, c) == [k \in DOMAIN vs |-> resolveValue(vs[k], m, c)]

\* if (step.catch)
CatchPresent(step) == "catch" \in DOMAIN step

\* A throw that no try stops
ThrowPastTry(m, msg) ==
  [m EXCEPT !.exc = msg, !.stack = <<>>, !.thrown = @ \cup {[msg |-> msg, by |-> "none"]}]

\* (A throw that only ends the call that threw: the caller goes on.)
ThrowEndsCall(m, msg) ==
  [m EXCEPT !.stack = Front(@), !.thrown = @ \cup {[msg |-> msg, by |-> "none"]}]

\* throw: the error leaves every pending call up to the innermost `try` atom
\* that is still inside its try block (a catch block's own errors pass through).
\* (History: thrown keeps the message, and whether it reaches a try with a
\* catch, a try without one, or no try at all.)
Throw(m, msg) ==
  LET js == {j \in 1..Len(m.stack) : m.stack[j].k = "try" /\ m.stack[j].phase = "try"}
      top == CHOOSE j \in js : \A i \in js : i <= j
      by == IF js = {} THEN "none" ELSE IF CatchPresent(m.stack[top].step) THEN "catch" ELSE "nocatch"
  IN [m EXCEPT !.exc = msg,
               !.stack = IF js = {} THEN <<>> ELSE SubSeq(@, 1, top),
               !.thrown = @ \cup {[msg |-> msg, by |-> by]}]

\* ------------------------------------------------------------------ the atom executor (defineAtom)

DefaultTimeoutMs == 1000

FlowOps == {"seq", "if", "while", "try", "scope", "map"}

\* defineAtom's timeoutMs argument of every core atom
timeoutMs(op) == IF op \in FlowOps THEN 0 ELSE DefaultTimeoutMs

\* The input schema each core atom is defined with: whether it has one, and
\* the properties an object must have to be valid.
inputSchema(op) ==
  CASE op = "seq" -> [present |-> TRUE, required |-> {"steps"}]
    [] op = "if" -> [present |-> TRUE, required |-> {"condition", "vars", "then"}]
    [] op = "while" -> [present |-> TRUE, required |-> {"condition", "vars", "body"}]
    [] op = "return" -> [present |-> FALSE, required |-> {}]
    [] op = "try" -> [present |-> TRUE, required |-> {"try"}]
    [] op = "var.set" -> [present |-> TRUE, required |-> {"key", "value"}]
    [] op = "var.get" -> [present |-> TRUE, required |-> {"key"}]
    [] op = "scope" -> [present |-> TRUE, required |-> {"steps"}]
    [] op = "map" -> [present |-> TRUE, required |-> {"items", "as", "steps"}]
    [] op = "push" -> [present |-> TRUE, required |-> {"list", "item"}]
    [] op = "http.fetch" -> [present |-> TRUE, required |-> {"url"}]
    [] op = "store.get" -> [present |-> TRUE, required |-> {"key"}]
    [] op = "store.set" -> [present |-> TRUE, required |-> {"key", "value"}]
    [] op = "store.query" -> [present |-> TRUE, required |-> {"query"}]
    [] op = "store.vectorSearch" -> [present |-> TRUE, required |-> {"vector"}]
    [] op = "llm.predict" -> [present |-> TRUE, required |-> {"prompt"}]

coreAtoms ==
  {"seq", "if", "while", "return", "try", "var.set", "var.get", "scope", "map", "push", "http.fetch",
   "store.get", "store.set", "store.query", "store.vectorSearch", "llm.predict"}

\* A validate that accepts every object
validateAnything(schema, data) == TRUE

\* validate(schema, data) of the schema library, for the object schemas above
validate(schema, data) == schema.required \subseteq data

\* const { op, result, ...inputData } = step
inputData(step) == DOMAIN step \ {"op", "result"}

\* if (inputSchema && !validate(inputSchema, inputData)) throw
Invalid(step) == inputSchema(step.op).present /\ ~validate(inputSchema(step.op), inputData(step))

\* JSON.stringify(inputData): the text of an object with no properties; of any
\* other object only that it differs
stringify(data) == IF data = {} THEN "{}" ELSE "{...}"

ValidationMsg(step) == "Atom '" \o step.op \o "' validation failed: " \o stringify(inputData(step))
TimeoutMsg(op) == "Atom '" \o op \o "' timed out"

\* history: fn(step, ctx) is entered
Ran(m, step) == [m EXCEPT !.ran = @ \cup {step}]

\* exec's last part: bind the value fn returned to step.result, and return
Finish(m, step, c, v) ==
  LET m1 == IF "result" \in DOMAIN step /\ step.result # "" /\ v.t # "undefined"
              THEN SetState(m, c, step.result, v)
              ELSE m
  IN [m1 EXCEPT !.stack = Front(@)]

\* this.atoms[op] with this.atoms = { ...coreAtoms, ...customAtoms }: the
\* custom atom of that op, else the core atom, else none
resolve(custom, op) ==
  IF op \in custom THEN "custom" ELSE IF op \in coreAtoms THEN "core" ELSE "none"

\* atom.exec(step, ctx) is called: a pending exec.  A custom atom of a core
\* op is taken to do what the core atom does.  (History: impl keeps which
\* atom's exec it was.)
Exec(m, atom, step, c) ==
  [m EXCEPT !.stack = Append(@, [k |-> "exec", step |-> step, c |-> c]),
            !.impl = @ \cup {[op |-> step.op, atom |-> atom]}]

\* the exec of the atom the VM's resolver gives for the step's op
Call(m, step, c) == Exec(m, resolve(m.customAtoms, step.op), step, c)

\* seq.exec({ op: 'seq', steps }, ctx), as if, while, try, scope and map call
\* it: the exec of the module's own seq atom
InlineSeq(m, steps, c) == Exec(m, "core", [op |-> "seq", steps |-> steps], c)

\* the innermost pending call is atom.exec of an `op` step, and nothing is being thrown
Pending(m, op) ==
  /\ m.status = "running" /\ m.exc = "" /\ Len(m.stack) > 0
  /\ Top(m).k = "exec" /\ Top(m).step.op = op

\* the innermost pending call is a `kind` atom whose inline seq has returned
Resumed(m, kind) ==
  /\ m.status = "running" /\ m.exc = "" /\ Len(m.stack) > 0
  /\ Top(m).k = kind

\* ------------------------------------------------------------------ flow atoms

\* A fuel check that lets the step after the last unit through
OutOfFuelOffByOne(fuel) == fuel < 0

\* ctx.fuel-- <= 0, on the fuel before the decrement
OutOfFuel(fuel) == fuel <= 0

\* seq's exec is entered: validation, then fn starts its loop over steps.
\* (History: `returned` marks a seq that was pending when a `return` ran; the
\* body of a later iteration of a while so marked is marked too.)
seq(m) ==
  LET f == Top(m)
      n == Len(m.stack)
      late == n > 1 /\ m.stack[n - 1].k = "while" /\ m.stack[n - 1].returned
  IN IF Invalid(f.step) THEN Throw(m, ValidationMsg(f.step))
     ELSE [Ran(m, f.step) EXCEPT !.stack[n] = [k |-> "seq", step |-> f.step, c |-> f.c, i |-> 1, returned |-> late]]

\* One iteration of seq's for loop (or its end): the fuel check, the return
\* check, the resolver, and the call of the child's exec.
seqLoop(m) ==
  LET f == Top(m)
      n == Len(m.stack)
  IN IF f.i > Len(f.step.steps) THEN Finish(m, f.step, f.c, Undefined)
     ELSE LET cx == m.ctxs[f.c]
              m1 == [m EXCEPT !.ctxs[f.c].fuel = @ - 1]
              s == f.step.steps[f.i]
          IN IF OutOfFuel(cx.fuel) THEN Throw(m1, "Out of Fuel")
             ELSE IF cx.output.set THEN Finish(m1, f.step, f.c, Undefined)
             ELSE IF resolve(m.customAtoms, s.op) = "none" THEN Throw(m1, "Unknown Atom: " \o s.op)
             ELSE Call([m1 EXCEPT !.stack[n].i = @ + 1, !.log = Append(@, s)], s, f.c)

\* A branch that runs in a child scope of the if's context
IfBranchScoped(m, steps, c) ==
  InlineSeq([m EXCEPT !.ctxs = Append(@, createChildScope(m.ctxs[c], c))], steps, Len(m.ctxs) + 1)

\* await seq.exec({ op: 'seq', steps: step.then }, ctx) of if: the branch runs in
\* the context the if itself runs in
IfBranch(m, steps, c) == InlineSeq(m, steps, c)

\* if: on entry the condition is evaluated and a branch run as an inline seq;
\* when that seq has returned, the atom returns.  (History: `entry` is the
\* context's state and `mark` the length of the log when the branch was entered.)
iff(m) ==
  LET f == Top(m)
      n == Len(m.stack)
  IN IF f.k = "if" THEN Finish(m, f.step, f.c, Undefined)
     ELSE IF Invalid(f.step) THEN Throw(m, ValidationMsg(f.step))
     ELSE LET m1 == Ran(m, f.step)
              ev == evaluateExpression(f.step.condition, ResolveVars(f.step.vars, m, f.c), m.lits)
              wait == [m1 EXCEPT !.stack[n] = [k |-> "if", step |-> f.step, c |-> f.c,
                                               entry |-> m.ctxs[f.c].state, mark |-> Len(m.log)]]
          IN IF ev.err THEN Throw(m1, "Expr: Invalid op")
             ELSE IF ev.v # 0 THEN IfBranch(wait, f.step.then, f.c)
             ELSE IF "else" \in DOMAIN f.step THEN IfBranch(wait, f.step.else, f.c)
             ELSE Finish(m1, f.step, f.c, Undefined)

\* The top of while's loop: the fuel check, the condition, the body as an
\* inline seq in the while's own context.
WhileHead(m, step, c, returned) ==
  LET ev == evaluateExpression(step.condition, ResolveVars(step.vars, m, c), m.lits)
      wait == [m EXCEPT !.stack[Len(m.stack)] = [k |-> "while", step |-> step, c |-> c, returned |-> returned,
                                                 entry |-> m.ctxs[c].state, mark |-> Len(m.log)]]
  IN IF m.ctxs[c].fuel <= 0 THEN Throw(m, "Out of Fuel")
     ELSE IF ev.err THEN Throw(m, "Expr: Invalid op")
     ELSE IF ev.v = 0 THEN Finish(m, step, c, Undefined)
     ELSE InlineSeq(wait, step.body, c)

\* while: on entry, and again each time the body has returned
whileLoop(m) ==
  LET f == Top(m)
  IN IF f.k = "while"
       THEN IF m.ctxs[f.c].output.set THEN Finish(m, f.step, f.c, Undefined)
            ELSE WhileHead(m, f.step, f.c, f.returned)
     ELSE IF Invalid(f.step) THEN Throw(m, ValidationMsg(f.step))
     ELSE WhileHead(Ran(m, f.step), f.step, f.c, FALSE)

\* History: every seq and while pending now becomes one that a return ran in.
MarkReturned(frames) ==
  [j \in DOMAIN frames |->
     IF frames[j].k \in {"seq", "while"} THEN [frames[j] EXCEPT !.returned = TRUE] ELSE frames[j]]

\* return: res has the schema's property names, each read from ctx.state
ret(m) ==
  LET f == Top(m)
      res == IF "schema" \in DOMAIN f.step
               THEN [key \in f.step.schema |-> Lookup(m.ctxs, f.c, key)]
               ELSE EmptyObj
      m1 == [Ran(m, f.step) EXCEPT !.ctxs[f.c].output = Output(res), !.stack = MarkReturned(@)]
  IN Finish(m1, f.step, f.c, Obj(res))

\* try's catch clause, entered with the error e thrown by the try block
Catch(m, step, c) ==
  LET n == Len(m.stack)
  IN IF CatchPresent(step)
       THEN InlineSeq([SetState(m, c, "error", Str(m.exc)) EXCEPT !.exc = "", !.stack[n].phase = "catch"],
                      step.catch, c)
       ELSE Finish([m EXCEPT !.exc = ""], step, c, Undefined)

\* try: on entry the try block runs as an inline seq; an error it throws
\* enters the catch clause; when either seq has returned, the atom returns.
\* (History: `caught` is the message the catch clause was entered with.)
tryCatch(m) ==
  LET f == Top(m)
      n == Len(m.stack)
  IN IF f.k = "try"
       THEN IF m.exc # "" THEN Catch([m EXCEPT !.stack[n].caught = m.exc], f.step, f.c)
            ELSE Finish(m, f.step, f.c, Undefined)
     ELSE IF Invalid(f.step) THEN Throw(m, ValidationMsg(f.step))
     ELSE InlineSeq([Ran(m, f.step) EXCEPT !.stack[n] = [k |-> "try", step |-> f.step, c |-> f.c,
                                                         phase |-> "try", caught |-> "", mark |-> Len(m.log)]],
                    f.step.try, f.c)

\* scope: on entry a child context runs the steps as an inline seq; when it
\* has returned, the child's output (if any) is copied to the parent.
\* (History: `entry` is the parent's state when the steps were entered.)
scope(m) ==
  LET f == Top(m)
      n == Len(m.stack)
      child == Len(m.ctxs) + 1
  IN IF f.k = "scope"
       THEN LET out == m.ctxs[f.child].output
                m1 == IF out.set THEN [m EXCEPT !.ctxs[f.c].output = out] ELSE m
            IN Finish(m1, f.step, f.c, Undefined)
     ELSE IF Invalid(f.step) THEN Throw(m, ValidationMsg(f.step))
     ELSE InlineSeq([Ran(m, f.step) EXCEPT
                       !.ctxs = Append(@, createChildScope(m.ctxs[f.c], f.c)),
                       !.stack[n] = [k |-> "scope", step |-> f.step, c |-> f.c, child |-> child,
                                     entry |-> m.ctxs[f.c].state]],
                    f.step.steps, child)

\* The top of map's loop, with `results` so far: the next item gets a child
\* context with `as` bound, or the loop ends and map returns the results.
MapHead(m, step, c, results) ==
  LET n == Len(m.stack)
      child == Len(m.ctxs) + 1
      item == step.items[Len(results) + 1]
      cx == [createChildScope(m.ctxs[c], c) EXCEPT !.state = (step.as :> item) @@ @]
  IN IF Len(results) = Len(step.items) THEN Finish(m, step, c, Arr(results))
     ELSE InlineSeq([m EXCEPT
                       !.ctxs = Append(@, cx),
                       !.stack[n] = [k |-> "map", step |-> step, c |-> c, child |-> child, results |-> results,
                                     entry |-> m.ctxs[c].state]],
                    step.steps, child)

\* map: on entry, and again each time an item's steps have returned
map(m) ==
  LET f == Top(m)
  IN IF f.k = "map"
       THEN LET v == Lookup(m.ctxs, f.child, "result")
            IN MapHead(m, f.step, f.c, Append(f.results, IF Nullish(v) THEN Null ELSE v))
     ELSE IF Invalid(f.step) THEN Throw(m, ValidationMsg(f.step))
     ELSE MapHead(Ran(m, f.step), f.step, f.c, <<>>)

\* ------------------------------------------------------------------ state, list and IO atoms

varSet(m) ==
  LET f == Top(m)
  IN IF Invalid(f.step) THEN Throw(m, ValidationMsg(f.step))
     ELSE Finish(SetState(Ran(m, f.step), f.c, f.step.key, f.step.value), f.step, f.c, Undefined)

varGet(m) ==
  LET f == Top(m)
  IN IF Invalid(f.step) THEN Throw(m, ValidationMsg(f.step))
     ELSE Finish(Ran(m, f.step), f.step, f.c, resolveValue(Str(f.step.key), m, f.c))

\* push: list is the step's own array literal, appended to in place
push(m) ==
  LET f == Top(m)
  IN IF Invalid(f.step) THEN Throw(m, ValidationMsg(f.step))
     ELSE Finish([Ran(m, f.step) EXCEPT !.lits[f.step.list] = Append(@, f.step.item)],
                 f.step, f.c, AstList(f.step.list))

\* What the host's capabilities resolve with.
FetchResult == Str("fresh")

\* ------------------------------------------------------------------ capability atoms

\* A capability call, as the host sees it: the capability, and its arguments
CapCalled(m, cap, key, value) ==
  [m EXCEPT !.calls = Append(@, [cap |-> cap, key |-> key, value |-> value])]

\* Promise.race of execute() and the atom's timer, for an fn that awaits a
\* capability which resolves with v: in time, or (`late`) after the timer has
\* fired, when the call stays pending and the atom has thrown.
Race(m, step, c, late, v) ==
  IF late /\ timeoutMs(step.op) > 0
    THEN Throw([m EXCEPT !.abandoned = @ \cup {[step |-> step, c |-> c, v |-> v]}], TimeoutMsg(step.op))
    ELSE Finish(m, step, c, v)

\* (A late call that still binds its result, as exec would if it awaited the
\* call itself.)
lateResolveBinds(m, w) ==
  [SetState(m, w.c, w.step.result, w.v) EXCEPT !.abandoned = @ \ {w}]

\* The pending call w of a timed-out atom resolves: the race is over, and
\* nothing awaits its value
lateResolve(m, w) == [m EXCEPT !.abandoned = @ \ {w}]

CachedValue == Obj("data" :> Str("cached"))
QueryResult == Arr(<<Num(1)>>)
PredictResult == Str("answer")

\* http.fetch: capabilities.fetch is "missing", "ok" (it resolves with
\* FetchResult) or "slow" (it resolves after the atom's timer has fired)
fetch(m) ==
  LET f == Top(m)
      m1 == Ran(m, f.step)
  IN IF Invalid(f.step) THEN Throw(m, ValidationMsg(f.step))
     ELSE IF m.capabilities.fetch = "missing" THEN Throw(m1, "Capability 'fetch' missing")
     ELSE Race(CapCalled(m1, "fetch", f.step.url, Undefined), f.step, f.c,
               m.capabilities.fetch = "slow", FetchResult)

\* store.get: capabilities.store is "missing", "miss" (get resolves with null)
\* or "hit" (get resolves with CachedValue)
storeGet(m) ==
  LET f == Top(m)
      m1 == Ran(m, f.step)
  IN IF Invalid(f.step) THEN Throw(m, ValidationMsg(f.step))
     ELSE IF m.capabilities.store = "missing" THEN Finish(m1, f.step, f.c, Undefined)
     ELSE Finish(CapCalled(m1, "store.get", f.step.key, Undefined), f.step, f.c,
                 IF m.capabilities.store = "hit" THEN CachedValue ELSE Null)

\* store.set: set resolves with undefined
storeSet(m) ==
  LET f == Top(m)
      m1 == Ran(m, f.step)
  IN IF Invalid(f.step) THEN Throw(m, ValidationMsg(f.step))
     ELSE IF m.capabilities.store = "missing" THEN Finish(m1, f.step, f.c, Undefined)
     ELSE Finish(CapCalled(m1, "store.set", f.step.key, f.step.value), f.step, f.c, Undefined)

\* store.query: a store that is there has a query, which resolves with QueryResult
storeQuery(m) ==
  LET f == Top(m)
      m1 == Ran(m, f.step)
  IN IF Invalid(f.step) THEN Throw(m, ValidationMsg(f.step))
     ELSE IF m.capabilities.store = "missing" THEN Finish(m1, f.step, f.c, Arr(<<>>))
     ELSE Finish(CapCalled(m1, "store.query", "", f.step.query), f.step, f.c, QueryResult)

\* store.vectorSearch: likewise
vectorSearch(m) ==
  LET f == Top(m)
      m1 == Ran(m, f.step)
  IN IF Invalid(f.step) THEN Throw(m, ValidationMsg(f.step))
     ELSE IF m.capabilities.store = "missing" THEN Finish(m1, f.step, f.c, Arr(<<>>))
     ELSE Finish(CapCalled(m1, "store.vectorSearch", "", f.step.vector), f.step, f.c, QueryResult)

\* llm.predict: capabilities.llm is "missing" or "ok" (predict resolves with PredictResult)
llmPredict(m) ==
  LET f == Top(m)
      m1 == Ran(m, f.step)
  IN IF Invalid(f.step) THEN Throw(m, ValidationMsg(f.step))
     ELSE IF m.capabilities.llm = "missing" THEN Throw(m1, "Capability 'llm.predict' missing")
     ELSE Finish(CapCalled(m1, "llm.predict", f.step.prompt, Undefined), f.step, f.c, PredictResult)

\* ------------------------------------------------------------------ the VM

\* (A root check that lets every node through.)
BadRootNever(a) == FALSE

\* if (ast.op !== 'seq') throw new Error("Root AST must be 'seq'")
BadRoot(a) == a.op # "seq"

\* AgentVM.run up to its await: the root context, the root check, the boot
run(a, as, fuel, caps, lits, custom) ==
  LET m == [status |-> "running", args |-> as, capabilities |-> caps,
            ctxs |-> <<[fuel |-> fuel, state |-> EmptyObj, parent |-> 0, output |-> NoOutput]>>,
            stack |-> <<>>, exc |-> "", error |-> "", result |-> NoOutput,
            log |-> <<>>, ran |-> {}, calls |-> <<>>, thrown |-> {}, abandoned |-> {},
            customAtoms |-> custom, impl |-> {}, lits |-> lits]
  IN IF BadRoot(a) THEN [m EXCEPT !.status = "failed", !.error = "Root AST must be 'seq'"]
     ELSE Call(m, a, 1)

\* AgentVM.run after its await: the root exec has returned, or has thrown
runSettle(m) ==
  IF m.exc # "" THEN [m EXCEPT !.status = "failed", !.error = m.exc, !.exc = ""]
  ELSE [m EXCEPT !.status = "done", !.result = m.ctxs[1].output]

\* The call that runs next in a run: the innermost pending one.
step(m) ==
  IF Len(m.stack) = 0 THEN runSettle(m)
  ELSE LET f == Top(m)
           op == IF f.k = "exec" THEN f.step.op ELSE f.k
       IN CASE f.k = "seq" -> seqLoop(m)
            [] op = "seq" -> seq(m)
            [] op = "if" -> iff(m)
            [] op = "while" -> whileLoop(m)
            [] op = "return" -> ret(m)
            [] op = "try" -> tryCatch(m)
            [] op = "scope" -> scope(m)
            [] op = "map" -> map(m)
            [] op = "var.set" -> varSet(m)
            [] op = "var.get" -> varGet(m)
            [] op = "push" -> push(m)
            [] op = "http.fetch" -> fetch(m)
            [] op = "store.get" -> storeGet(m)
            [] op = "store.set" -> storeSet(m)
            [] op = "store.query" -> storeQuery(m)
            [] op = "store.vectorSearch" -> vectorSearch(m)
            [] op = "llm.predict" -> llmPredict(m)

\* A run on its own, from m until it settles or has taken n steps.
RECURSIVE Alone(_, _)
Alone(m, n) == IF m.status # "running" \/ n = 0 THEN m ELSE Alone(step(m), n - 1)

\* ------------------------------------------------------------------ programs

SeqsUpTo(S, n) == UNION {[1..k -> S] : k \in 0..n}

SetX1 == [op |-> "var.set", key |-> "x", value |-> Num(1)]
SetX2 == [op |-> "var.set", key |-> "x", value |-> Num(2)]
SetY9 == [op |-> "var.set", key |-> "y", value |-> Num(9)]
GetX == [op |-> "var.get", key |-> "x", result |-> "y"]
Ret == [op |-> "return", schema |-> {"x", "y", "res", "error"}]
Fetch == [op |-> "http.fetch", url |-> "x", result |-> "res"]
Push == [op |-> "push", list |-> 1, item |-> Num(7), result |-> "res"]
Unknown == [op |-> "nope"]

\* The argument reference { $kind: 'arg', path: p } where it is the value of a
\* property that otherwise holds a string: the object, by its JSON text
ArgRefText(p) == "{\"$kind\":\"arg\",\"path\":\"" \o p \o "\"}"

StoreGet == [op |-> "store.get", key |-> "args.url", result |-> "cached"]
StoreSet == [op |-> "store.set", key |-> ArgRefText("url"), value |-> Str("fetched")]
StoreQuery == [op |-> "store.query", query |-> Str("q"), result |-> "res"]
VectorSearch == [op |-> "store.vectorSearch", vector |-> Arr(<<Num(1)>>), result |-> "res"]
LlmPredict == [op |-> "llm.predict", prompt |-> "p", result |-> "res"]
\* a step with none of the properties its atom's schema requires
Bad(op) == [op |-> op, result |-> "res"]

\* 'x < 2' and its vars { x: 'x' }
XLt2 == <<TId("x"), TOp("<"), TNum(2)>>
VarsX == [x |-> Str("x")]

SeqOf(ss) == [op |-> "seq", steps |-> ss]
ScopeOf(b) == [op |-> "scope", steps |-> b]
MapOf(b) == [op |-> "map", items |-> <<Num(1), Num(2)>>, as |-> "it", steps |-> b]
WhileOf(b) == [op |-> "while", condition |-> XLt2, vars |-> VarsX, body |-> b]
IfOf(b) == [op |-> "if", condition |-> XLt2, vars |-> VarsX, then |-> b]
IfElseOf(b) == [op |-> "if", condition |-> XLt2, vars |-> VarsX, then |-> b, else |-> <<SetY9>>]
TryOf(b) == [op |-> "try", try |-> b]
TryEmptyCatchOf(b) == [op |-> "try", try |-> b, catch |-> <<>>]
TryCatchOf(b) == [op |-> "try", try |-> b, catch |-> <<SetY9>>]

\* every flow atom around the body b
Flows(b) == {ScopeOf(b), MapOf(b), WhileOf(b), IfOf(b), IfElseOf(b), TryOf(b), TryEmptyCatchOf(b), TryCatchOf(b)}

Bodies == SeqsUpTo({SetX2, SetY9, Ret}, MaxBody)
Pres == {<<>>, <<SetX1>>}
Posts == {<<>>, <<Ret>>, <<SetY9, Ret>>}

\* root seqs of leaf steps only
LeafPrograms == {SeqOf(ss) : ss \in SeqsUpTo({SetX1, SetX2, SetY9, GetX}, MaxLeafSeq)}

\* one flow atom between a prefix and a suffix
FlowPrograms ==
  {SeqOf(pre \o <<f>> \o post) : pre \in Pres, f \in UNION {Flows(b) : b \in Bodies}, post \in Posts}

\* a flow atom inside a flow atom
NestedPrograms ==
  LET inner == UNION {Flows(b) : b \in {<<Ret>>, <<SetX2>>}}
      bodies == {<<f>> : f \in inner} \cup {<<f, SetY9>> : f \in inner}
  IN {SeqOf(<<SetX1, f, Ret>>) : f \in UNION {Flows(b) : b \in bodies}}

\* steps that fail validation, unknown ops, push and var.get
OtherPrograms ==
  {SeqOf(<<SetX1, Bad(op), Ret>>) : op \in coreAtoms}
    \cup {SeqOf(<<TryCatchOf(<<Bad(op), SetX2>>), Ret>>) : op \in coreAtoms}
    \cup {SeqOf(<<SetX1, Unknown, Ret>>), SeqOf(<<TryCatchOf(<<Unknown>>), Ret>>),
          SeqOf(<<Push, Push, Ret>>), SeqOf(<<WhileOf(<<Push, SetX2>>), Ret>>), SeqOf(<<MapOf(<<Push>>), Ret>>),
          SeqOf(<<SetX1, GetX, Ret>>), SeqOf(<<GetX, Ret>>), SeqOf(<<SetX1, ScopeOf(<<SetX2, GetX>>), Ret>>),
          [op |-> "scope", steps |-> <<SetX1>>], [op |-> "seq"]}

\* the steps that need a capability, each binding its result to res
IOSteps == {Fetch, [StoreGet EXCEPT !.result = "res"], StoreSet, StoreQuery, VectorSearch, LlmPredict}

\* one such step, in the root seq, in a try with a catch, or as the root node itself
IOPrograms ==
  {SeqOf(<<s, Ret>>) : s \in IOSteps} \cup {SeqOf(<<TryCatchOf(<<s>>), Ret>>) : s \in IOSteps}
    \cup {Fetch, LlmPredict}

\* The caching proxy of the tests: store.get as cached; if cached != null, the
\* result is cached; else http.fetch as fetched, store.set (when withSet), and
\* the result is fetched.
CachedNeqNull == <<TId("cached"), TOp("!="), TId("null")>>
RetResult == [op |-> "return", schema |-> {"result"}]
Proxy(withSet) ==
  SeqOf(<<StoreGet,
          [op |-> "if", condition |-> CachedNeqNull, vars |-> [cached |-> Str("cached")],
           then |-> <<[op |-> "var.set", key |-> "result", value |-> Str("cached")], RetResult>>],
          [op |-> "http.fetch", url |-> ArgRefText("url"), result |-> "fetched"]>>
        \o (IF withSet THEN <<StoreSet>> ELSE <<>>)
        \o <<[op |-> "var.set", key |-> "result", value |-> Str("fetched")], RetResult>>)
ProxyPrograms == {Proxy(TRUE), Proxy(FALSE)}
ProxyUrl == Str("http://api.data")
ProxyFuel == 8

\* programs that call fetch
FetchPrograms ==
  {SeqOf(<<f>> \o post) : f \in UNION {Flows(b) : b \in {<<Fetch>>, <<Fetch, SetX2>>, <<SetX2, Fetch>>}} \cup {Fetch, Bad("http.fetch")},
                          post \in {<<>>, <<Ret>>}}

\* x bound to a value that is null, 0, false or '', then read in the same
\* context and in a child scope
FalsyValues == {Null, Num(0), Bool(FALSE), Str("")}
NamePrograms ==
  {SeqOf(<<[SetX1 EXCEPT !.value = v], GetX, Ret>>) : v \in FalsyValues}
    \cup {SeqOf(<<[SetX1 EXCEPT !.value = v], ScopeOf(<<GetX>>), Ret>>) : v \in FalsyValues}

\* a map whose list is bound to res, over bodies that bind `result` (to their
\* item) or do not, with and without a `result` bound in the enclosing context
SetResult5 == [op |-> "var.set", key |-> "result", value |-> Num(5)]
GetIt == [op |-> "var.get", key |-> "it", result |-> "result"]
MapResOf(b) == [op |-> "map", items |-> <<Num(1), Num(2)>>, as |-> "it", steps |-> b, result |-> "res"]
MapPrograms ==
  {SeqOf(pre \o <<MapResOf(b), Ret>>) : pre \in {<<>>, <<SetResult5>>}, b \in {<<>>, <<GetIt>>, <<SetY9>>, <<SetY9, GetIt>>}}

Programs == LeafPrograms \cup FlowPrograms \cup NestedPrograms \cup OtherPrograms \cup NamePrograms \cup MapPrograms

\* how capabilities.fetch behaves: absent, resolving, or resolving too late
FetchKinds == {"missing", "ok", "slow"}

\* options.capabilities, by the behaviour of each capability
Caps(f, s, l) == [fetch |-> f, store |-> s, llm |-> l]
NoCaps == Caps("missing", "missing", "missing")

\* what run() is called with: the AST, the args, options.fuel and options.capabilities
Inputs ==
  {[ast |-> p, args |-> EmptyObj, fuel |-> f, capabilities |-> NoCaps] :
     p \in Programs, f \in 0..MaxFuel}
    \cup {[ast |-> p, args |-> EmptyObj, fuel |-> f, capabilities |-> Caps(k, "missing", "missing")] :
            p \in FetchPrograms, f \in 0..MaxFuel, k \in FetchKinds}
    \cup {[ast |-> p, args |-> EmptyObj, fuel |-> f, capabilities |-> c] :
            p \in IOPrograms, f \in 0..MaxFuel, c \in {NoCaps, Caps("ok", "miss", "ok"), Caps("slow", "hit", "ok")}}
    \cup {[ast |-> p, args |-> [url |-> ProxyUrl], fuel |-> ProxyFuel, capabilities |-> Caps(k, s, "missing")] :
            p \in ProxyPrograms, k \in {"ok", "slow"}, s \in {"miss", "hit"}}

\* ------------------------------------------------------------------ actions

Runs == {1, 2}
AstObjects == {1, 2}
ListIds == {1}

\* no call of evaluateExpression by itself
NoExprValue == [done |-> FALSE, err |-> FALSE, v |-> 0]

\* a VM with these custom atoms, and no run started
RunsIdle(custom) ==
  /\ customAtoms = custom
  /\ impl = [r \in Runs |-> {}]
  /\ status = [r \in Runs |-> "idle"]
  /\ ast = [r \in Runs |-> SeqOf(<<>>)]
  /\ astOf = [r \in Runs |-> 1]
  /\ args = [r \in Runs |-> EmptyObj]
  /\ capabilities = [r \in Runs |-> NoCaps]
  /\ fuel0 = [r \in Runs |-> 0]
  /\ ctxs = [r \in Runs |-> <<>>]
  /\ stack = [r \in Runs |-> <<>>]
  /\ exc = [r \in Runs |-> ""]
  /\ error = [r \in Runs |-> ""]
  /\ result = [r \in Runs |-> NoOutput]
  /\ log = [r \in Runs |-> <<>>]
  /\ ran = [r \in Runs |-> {}]
  /\ calls = [r \in Runs |-> <<>>]
  /\ thrown = [r \in Runs |-> {}]
  /\ abandoned = [r \in Runs |-> {}]
  /\ litsAtStart = [r \in Runs |-> [id \in ListIds |-> <<>>]]
  /\ astLists = [a \in AstObjects |-> [id \in ListIds |-> <<>>]]

InitWith(custom) ==
  /\ RunsIdle(custom)
  /\ expr = <<>> /\ exprVars = EmptyObj /\ exprValue = NoExprValue

\* new AgentVM(): no custom atoms
Init == InitWith({})

\* run(ast, args, options) is called on an idle run with the input `in`, the
\* AST being the object `a`
Start(r, in, a) ==
  /\ status[r] = "idle"
  /\ \A q \in Runs : (status[q] # "idle" /\ astOf[q] = a) => ast[q] = in.ast
  /\ ast' = [ast EXCEPT ![r] = in.ast]
  /\ astOf' = [astOf EXCEPT ![r] = a]
  /\ args' = [args EXCEPT ![r] = in.args]
  /\ capabilities' = [capabilities EXCEPT ![r] = in.capabilities]
  /\ fuel0' = [fuel0 EXCEPT ![r] = in.fuel]
  /\ LET m == run(in.ast, in.args, in.fuel, in.capabilities, astLists[a], customAtoms)
     IN /\ status' = [status EXCEPT ![r] = m.status]
        /\ ctxs' = [ctxs EXCEPT ![r] = m.ctxs]
        /\ stack' = [stack EXCEPT ![r] = m.stack]
        /\ exc' = [exc EXCEPT ![r] = m.exc]
        /\ error' = [error EXCEPT ![r] = m.error]
        /\ result' = [result EXCEPT ![r] = m.result]
        /\ log' = [log EXCEPT ![r] = m.log]
        /\ ran' = [ran EXCEPT ![r] = m.ran]
        /\ calls' = [calls EXCEPT ![r] = m.calls]
        /\ thrown' = [thrown EXCEPT ![r] = m.thrown]
        /\ abandoned' = [abandoned EXCEPT ![r] = m.abandoned]
        /\ impl' = [impl EXCEPT ![r] = m.impl]
  /\ litsAtStart' = [litsAtStart EXCEPT ![r] = astLists[a]]
  /\ UNCHANGED <<astLists, customAtoms, expr, exprVars, exprValue>>

Run == status[1] = "idle" /\ \E in \in Inputs : Start(1, in, 1)

RunSettle(r) == status[r] = "running" /\ Len(stack[r]) = 0 /\ Commit(r, runSettle(M(r)))
AtomSeq(r) == Pending(M(r), "seq") /\ Commit(r, seq(M(r)))
SeqLoop(r) == Resumed(M(r), "seq") /\ Commit(r, seqLoop(M(r)))
AtomIf(r) == (Pending(M(r), "if") \/ Resumed(M(r), "if")) /\ Commit(r, iff(M(r)))
AtomWhile(r) == (Pending(M(r), "while") \/ Resumed(M(r), "while")) /\ Commit(r, whileLoop(M(r)))
AtomReturn(r) == Pending(M(r), "return") /\ Commit(r, ret(M(r)))
AtomTry(r) ==
  /\ \/ Pending(M(r), "try")
     \/ status[r] = "running" /\ Len(stack[r]) > 0 /\ Top(M(r)).k = "try"
  /\ Commit(r, tryCatch(M(r)))
AtomScope(r) == (Pending(M(r), "scope") \/ Resumed(M(r), "scope")) /\ Commit(r, scope(M(r)))
AtomMap(r) == (Pending(M(r), "map") \/ Resumed(M(r), "map")) /\ Commit(r, map(M(r)))
AtomVarSet(r) == Pending(M(r), "var.set") /\ Commit(r, varSet(M(r)))
AtomVarGet(r) == Pending(M(r), "var.get") /\ Commit(r, varGet(M(r)))
AtomPush(r) == Pending(M(r), "push") /\ Commit(r, push(M(r)))
AtomFetch(r) == Pending(M(r), "http.fetch") /\ Commit(r, fetch(M(r)))
AtomStoreGet(r) == Pending(M(r), "store.get") /\ Commit(r, storeGet(M(r)))
AtomStoreSet(r) == Pending(M(r), "store.set") /\ Commit(r, storeSet(M(r)))
AtomStoreQuery(r) == Pending(M(r), "store.query") /\ Commit(r, storeQuery(M(r)))
AtomVectorSearch(r) == Pending(M(r), "store.vectorSearch") /\ Commit(r, vectorSearch(M(r)))
AtomLlmPredict(r) == Pending(M(r), "llm.predict") /\ Commit(r, llmPredict(M(r)))
LateResolve(r) == \E w \in abandoned[r] : Commit(r, lateResolve(M(r), w))

\* one step of run r
Step(r) ==
  \/ RunSettle(r)
  \/ AtomSeq(r)
  \/ SeqLoop(r)
  \/ AtomIf(r)
  \/ AtomWhile(r)
  \/ AtomReturn(r)
  \/ AtomTry(r)
  \/ AtomScope(r)
  \/ AtomMap(r)
  \/ AtomVarSet(r)
  \/ AtomVarGet(r)
  \/ AtomPush(r)
  \/ AtomFetch(r)
  \/ AtomStoreGet(r)
  \/ AtomStoreSet(r)
  \/ AtomStoreQuery(r)
  \/ AtomVectorSearch(r)
  \/ AtomLlmPredict(r)
  \/ LateResolve(r)

Next == Run \/ \E r \in Runs : Step(r)

Spec == Init /\ [][Next]_vars

\* new AgentVM({ seq, 'var.set' }): custom atoms for two core ops
CustomOps == {"seq", "var.set"}
InitCustom == InitWith(CustomOps)

\* The runs of a VM that was given custom atoms
SpecCustom == InitCustom /\ [][Next]_vars

\* ------------------------------------------------------------------ concurrent runs

\* Programs for two runs at once; between them they use every atom.
ConcPrograms ==
  {SeqOf(<<Push, GetX, Ret>>),
   SeqOf(<<TryCatchOf(<<Fetch>>), ScopeOf(<<SetX2>>), Ret>>),
   SeqOf(<<WhileOf(<<SetX2>>), IfOf(<<SetY9>>), MapOf(<<Push>>)>>),
   SeqOf(<<StoreGet, StoreSet, StoreQuery, VectorSearch, LlmPredict>>)}

ConcInputs ==
  {[ast |-> p, args |-> EmptyObj, fuel |-> f, capabilities |-> Caps("slow", "miss", "ok")] :
     p \in ConcPrograms, f \in {MaxFuel - 2, MaxFuel}}

\* Any idle run is started, with either AST object
RunAny == \E r \in Runs : status[r] = "idle" /\ \E in \in ConcInputs, a \in AstObjects : Start(r, in, a)

NextConc == RunAny \/ \E r \in Runs : Step(r)

\* Two runs of one VM, their steps interleaved at every await
SpecConc == Init /\ [][NextConc]_vars

\* ------------------------------------------------------------------ one run, under fairness

\* The event loop resumes every continuation that is ready: a run that can
\* take a step eventually takes one
LiveInputs ==
  {[ast |-> p, args |-> EmptyObj, fuel |-> f, capabilities |-> Caps("slow", "miss", "ok")] :
     p \in ConcPrograms \cup {SeqOf(<<WhileOf(<<>>), Ret>>), SeqOf(<<WhileOf(<<SetX2>>), Ret>>)},
     f \in {MaxFuel - 2, MaxFuel}}

RunLive == status[1] = "idle" /\ \E in \in LiveInputs : Start(1, in, 1)

NextLive == RunLive \/ \E r \in Runs : Step(r)

SpecLive == Init /\ [][NextLive]_vars /\ \A r \in Runs : WF_vars(Step(r))

\* ------------------------------------------------------------------ evaluateExpression by itself

Operands == {TNum(2), TNum(3), TId("x"), TId("z")}
BinOps == {"+", "-", "*", ">", "<", ">=", "<=", "==", "!="}

\* Well-formed expressions: one operand, two or three operands with operators
\* between them, with or without a pair of parentheses
WellFormedExprs ==
  {<<a>> : a \in Operands} \cup {<<TOp("("), a, TOp(")")>> : a \in Operands}
    \cup {<<a, TOp(o), b>> : a \in Operands, o \in BinOps, b \in Operands}
    \cup {<<a, TOp(o), b, TOp(q), c>> : a \in Operands, o \in BinOps, b \in Operands, q \in BinOps, c \in Operands}
    \cup {<<TOp("("), a, TOp(o), b, TOp(")"), TOp(q), c>> :
            a \in Operands, o \in BinOps, b \in Operands, q \in BinOps, c \in Operands}
    \cup {<<a, TOp(o), TOp("("), b, TOp(q), c, TOp(")")>> :
            a \in Operands, o \in BinOps, b \in Operands, q \in BinOps, c \in Operands}

\* Imbalanced expressions, by what is wrong with them
MissingOperandExprs ==
  {<<a, TOp(o)>> : a \in Operands, o \in BinOps} \cup {<<TOp(o), a>> : a \in Operands, o \in BinOps}
    \cup {<<a, TOp(o), b, TOp(q)>> : a \in Operands, o \in BinOps, b \in Operands, q \in BinOps}
AdjacentOperandExprs ==
  {<<a, b>> : a \in Operands, b \in Operands}
    \cup {<<a, TOp(o), b, c>> : a \in Operands, o \in BinOps, b \in Operands, c \in Operands}
UnmatchedOpenExprs ==
  {<<TOp("("), a>> : a \in Operands}
    \cup {<<TOp("("), a, TOp(o), b>> : a \in Operands, o \in BinOps, b \in Operands}
UnmatchedCloseExprs ==
  {<<a, TOp(")")>> : a \in Operands}
    \cup {<<a, TOp(o), b, TOp(")")>> : a \in Operands, o \in BinOps, b \in Operands}
ImbalancedExprs == MissingOperandExprs \cup AdjacentOperandExprs \cup UnmatchedOpenExprs \cup UnmatchedCloseExprs

\* vars: x missing, a number, or a value that is not a number; z is never there
ExprVarSets == {EmptyObj, [x |-> Num(8)], [x |-> Bool(TRUE)], [x |-> Str("a")], [x |-> Null]}

InitExpr ==
  /\ RunsIdle({})
  /\ expr \in WellFormedExprs \cup ImbalancedExprs \cup {<<>>}
  /\ exprVars \in ExprVarSets
  /\ exprValue = NoExprValue

\* evaluateExpression(expr, vars) returns or throws
Evaluate ==
  /\ ~exprValue.done
  /\ exprValue' = [done |-> TRUE] @@ evaluateExpression(expr, exprVars, [id \in ListIds |-> <<>>])
  /\ UNCHANGED <<status, ast, astOf, args, capabilities, fuel0, ctxs, stack, exc, error, result, log, ran,
                 calls, thrown, abandoned, customAtoms, impl, expr, exprVars, litsAtStart, astLists>>

NextExpr == Evaluate

\* Calls of evaluateExpression by itself
SpecExpr == InitExpr /\ [][NextExpr]_vars

\* ------------------------------------------------------------------ properties

Min(a, b) == IF a < b THEN a ELSE b

\* What a sequence of var.set, var.get and return steps leaves in a state
\* object that starts as st and has no prototype.
RECURSIVE LeafEffect(_, _)
LeafEffect(st, steps) ==
  IF Len(steps) = 0 THEN st
  ELSE LET s == steps[1]
           st1 == CASE s.op = "var.set" -> (s.key :> s.value) @@ st
                    [] s.op = "var.get" ->
                         (s.result :> IF s.key \in DOMAIN st /\ ~Nullish(st[s.key]) THEN st[s.key] ELSE Str(s.key)) @@ st
                    [] OTHER -> st
       IN LeafEffect(st1, Tail(steps))

LeafOps == {"var.set", "var.get", "return"}

\* The steps handed to atoms since the log was `mark` long
Since(r, mark) == SubSeq(log[r], mark + 1, Len(log[r]))

\* C1: once a return step has executed, no seq that was pending at that
\* moment hands a further step to an atom, and neither does the body of a
\* later iteration of a while that was pending at that moment.
C1_ReturnUnwinds ==
  \A r \in Runs : \A j \in 1..(Len(stack[r]) - 1) :
    (stack[r][j].k = "seq" /\ stack[r][j].returned) => stack[r][j + 1].k # "exec"

\* C2: a run started with fuel F hands at most F steps to atoms in total,
\* whatever scope and map bodies they are in.
C2_OneFuelBudget == \A r \in Runs : Len(log[r]) <= fuel0[r]

\* C3: a root seq of N leaf steps run with fuel F executes its steps in order;
\* with F < N it executes exactly the first F, holds exactly their writes, and
\* fails with 'Out of Fuel'; with F >= N it executes all N and resolves.
C3_OutOfFuelExact ==
  \A r \in Runs : (status[r] # "idle" /\ ast[r] \in LeafPrograms) =>
    LET steps == ast[r].steps
        N == Len(steps)
        F == fuel0[r]
        k == Len(log[r])
    IN /\ k <= Min(F, N)
       /\ log[r] = SubSeq(steps, 1, k)
       /\ (Len(stack[r]) > 0 /\ Top(M(r)).k = "seq") => ctxs[r][1].state = LeafEffect(EmptyObj, log[r])
       /\ status[r] = "failed" =>
            /\ F < N /\ k = F /\ error[r] = "Out of Fuel"
            /\ ctxs[r][1].state = LeafEffect(EmptyObj, SubSeq(steps, 1, F))
       /\ status[r] = "done" =>
            /\ F >= N /\ k = N /\ ~result[r].set
            /\ ctxs[r][1].state = LeafEffect(EmptyObj, steps)

\* C3 happens: a run with at least one unit of fuel, fewer than its steps, has failed
C3_Witness ==
  \E r \in Runs :
    /\ status[r] = "failed" /\ ast[r] \in LeafPrograms
    /\ fuel0[r] >= 1 /\ fuel0[r] < Len(ast[r].steps)
    /\ DOMAIN ctxs[r][1].state # {}

\* C4: while a scope or map body is pending, and when it has exited, the
\* parent context's state is what it was when the body was entered; and just
\* after a var.set in the body, a read of the name in the body's context
\* gives the value written.
C4_ScopeIsolation ==
  \A r \in Runs :
    /\ \A j \in 1..Len(stack[r]) :
         stack[r][j].k \in {"scope", "map"} => ctxs[r][stack[r][j].c].state = stack[r][j].entry
    /\ (Len(stack[r]) > 0 /\ exc[r] = "" /\ Top(M(r)).k = "seq"
          /\ Top(M(r)).i > 1 /\ ctxs[r][Top(M(r)).c].parent # 0) =>
         LET f == Top(M(r))
             s == f.step.steps[f.i - 1]
         IN s.op = "var.set" => Lookup(ctxs[r], f.c, s.key) = s.value

\* C4 happens: a scope body has exited after rebinding a name of the parent
\* and binding a new one
C4_Witness ==
  \E r \in Runs :
    /\ Len(stack[r]) > 0 /\ exc[r] = "" /\ Top(M(r)).k = "scope"
    /\ LET f == Top(M(r))
           child == ctxs[r][f.child].state
       IN /\ "x" \in DOMAIN f.entry /\ "x" \in DOMAIN child /\ child["x"] # f.entry["x"]
          /\ "y" \in DOMAIN child /\ "y" \notin DOMAIN f.entry

\* An if branch or a while body has exited normally
BodyExited(r) ==
  Len(stack[r]) > 0 /\ exc[r] = "" /\ status[r] = "running" /\ Top(M(r)).k \in {"if", "while"}

FailsSchema(s) ==
  s.op \in coreAtoms /\ inputSchema(s.op).present /\ ~(inputSchema(s.op).required \subseteq DOMAIN s)

\* The message of the error a leaf step throws by itself, "" when it throws none
ExpectedError(s, caps) ==
  CASE s.op \notin coreAtoms -> "Unknown Atom: " \o s.op
    [] FailsSchema(s) -> "Atom '" \o s.op \o "' validation failed: {}"
    [] s.op = "http.fetch" /\ caps.fetch = "missing" -> "Capability 'fetch' missing"
    [] s.op = "http.fetch" /\ caps.fetch = "slow" -> "Atom 'http.fetch' timed out"
    [] OTHER -> ""

\* The root seq starts with a try that has a catch, the first step of its try
\* block throws, its catch steps and the steps after it are leaf steps, and a
\* return can only be the last of them.
CatchCase(r) ==
  /\ status[r] # "idle" /\ ast[r].op = "seq" /\ "steps" \in DOMAIN ast[r] /\ Len(ast[r].steps) >= 1
  /\ LET T == ast[r].steps[1]
         rest == T.catch \o Tail(ast[r].steps)
     IN /\ T.op = "try" /\ "try" \in DOMAIN T /\ CatchPresent(T) /\ Len(T.try) >= 1
        /\ ExpectedError(T.try[1], capabilities[r]) # ""
        /\ \A i \in DOMAIN rest : rest[i].op \in LeafOps /\ (rest[i].op = "return" => i = Len(rest))

\* The steps such a run hands to atoms
CatchLog(r) ==
  LET T == ast[r].steps[1]
  IN <<T>> \o (IF T.try[1].op \in coreAtoms THEN <<T.try[1]>> ELSE <<>>) \o T.catch \o Tail(ast[r].steps)

\* The fuel such a run needs: one unit for every step seq takes up, the step
\* of an unknown op included
CatchFuel(r) == 2 + Len(ast[r].steps[1].catch) + Len(ast[r].steps) - 1

\* C6: when a step of a try block throws and the try has a catch, the rest of
\* the try block is skipped, the error's message is bound to `error` in the
\* try's context, the catch steps run there, and the run goes on with the
\* steps after the try and does not fail (given fuel for those steps).
C6_CatchAbsorbs ==
  \A r \in Runs :
    /\ \A j \in 1..Len(stack[r]) :
         (stack[r][j].k = "try" /\ stack[r][j].phase = "catch") =>
           LET f == stack[r][j]
           IN /\ CatchPresent(f.step) /\ f.caught # ""
              /\ j < Len(stack[r]) =>
                   /\ stack[r][j + 1].step = [op |-> "seq", steps |-> f.step.catch]
                   /\ stack[r][j + 1].c = f.c
                   /\ stack[r][j + 1].k = "exec" => Lookup(ctxs[r], f.c, "error") = Str(f.caught)
    /\ (CatchCase(r) /\ fuel0[r] >= CatchFuel(r)) =>
         LET T == ast[r].steps[1]
             rest == T.catch \o Tail(ast[r].steps)
             msg == ExpectedError(T.try[1], capabilities[r])
             end == LeafEffect("error" :> Str(msg), rest)
         IN /\ Len(log[r]) <= Len(CatchLog(r)) /\ log[r] = SubSeq(CatchLog(r), 1, Len(log[r]))
            /\ status[r] # "failed"
            /\ status[r] = "done" =>
                 /\ log[r] = CatchLog(r)
                 /\ ctxs[r][1].state = end
                 /\ result[r].set = (Len(rest) > 0 /\ Last(rest).op = "return")
                 /\ result[r].set => result[r].val = [key \in Last(rest).schema |-> Prop(end, key)]

\* C6 happens: a run has resolved with the caught error's message in its output
C6_Witness ==
  \E r \in Runs :
    /\ CatchCase(r) /\ status[r] = "done" /\ result[r].set
    /\ result[r].val["error"] = Str(ExpectedError(ast[r].steps[1].try[1], capabilities[r]))
    /\ result[r].val["y"] = Num(9)

\* C7: a run in which an error other than Out of Fuel was thrown inside a try
\* that has no catch, and reached no try with a catch, does not resolve.
C7_NoCatchPropagates ==
  \A r \in Runs : status[r] = "done" =>
    \A e \in thrown[r] : e.by = "nocatch" => e.msg = "Out of Fuel"

\* C8: a run in which Out of Fuel was thrown, inside a try or not, does not resolve.
C8_OutOfFuelFatal ==
  \A r \in Runs : status[r] = "done" => \A e \in thrown[r] : e.msg # "Out of Fuel"

AloneSteps == 200

\* An array literal of the AST, by its contents
Deref(v, lits) == IF v.t = "array" /\ v.s = "ast" THEN Arr(lits[v.n]) ELSE v

\* What the caller of run() gets
Outcome(m) ==
  [status |-> m.status, error |-> m.error, set |-> m.result.set,
   val |-> [key \in DOMAIN m.result.val |-> Deref(m.result.val[key], m.lits)]]

\* C9: what a run settles with is what the same call of run(), with the AST as
\* it was at the call, settles with when no other run takes a step.
C9_RunsIndependent ==
  \A r \in Runs : status[r] \in {"done", "failed"} =>
    Outcome(M(r)) = Outcome(Alone(run(ast[r], args[r], fuel0[r], capabilities[r], litsAtStart[r], customAtoms), AloneSteps))

\* C10: when atom.exec is reached for a step that fails its atom's input
\* schema (here by having none of the required properties), the call throws
\* the validation error naming the op; the atom's
\* body does not run, no capability is called, no state is bound and nothing
\* of the AST changes.
C10_ValidationFirst ==
  [][\A r \in Runs :
       (/\ status[r] = "running" /\ exc[r] = "" /\ Len(stack[r]) > 0 /\ stack'[r] # stack[r]
        /\ Top(M(r)).k = "exec" /\ FailsSchema(Top(M(r)).step)) =>
         /\ exc'[r] = "Atom '" \o Top(M(r)).step.op \o "' validation failed: {}"
         /\ ran'[r] = ran[r] /\ calls'[r] = calls[r] /\ ctxs'[r] = ctxs[r]
         /\ log'[r] = log[r] /\ astLists' = astLists]_vars

\* C10 happens: a run has failed with the validation error of a var.set step
\* that seq handed to atom.exec, with the step before it done and no more
C10_Witness ==
  \E r \in Runs :
    /\ status[r] = "failed" /\ error[r] = "Atom 'var.set' validation failed: {}"
    /\ Len(log[r]) = 2 /\ FailsSchema(log[r][2]) /\ log[r][2] \notin ran[r]
    /\ DOMAIN ctxs[r][1].state = {"x"}

\* ------------------------------------------------------------------ capabilities

\* The capability an IO, store or agent atom needs
NeededCap == [op \in {"http.fetch", "store.get", "store.set", "store.query", "store.vectorSearch", "llm.predict"} |->
                IF op = "http.fetch" THEN "fetch" ELSE IF op = "llm.predict" THEN "llm" ELSE "store"]

\* C11: when the body of an IO, store or agent atom has run in a run whose
\* host did not provide the capability the atom needs, the atom has thrown a
\* missing-capability error.
C11_MissingCapability ==
  \A r \in Runs : \A s \in ran[r] :
    (s.op \in DOMAIN NeededCap /\ capabilities[r][NeededCap[s.op]] = "missing") =>
      \E t \in thrown[r] : \E cap \in {"fetch", "store", "llm.predict"} : t.msg = "Capability '" \o cap \o "' missing"

\* The messages of the errors thrown so far in run r
Msgs(r) == {t.msg : t \in thrown[r]}

\* Run r is about to run the body of an http.fetch step whose capability is there
FetchRace(r) ==
  /\ status[r] = "running" /\ exc[r] = "" /\ Len(stack[r]) > 0
  /\ Top(M(r)).k = "exec" /\ Top(M(r)).step.op = "http.fetch" /\ ~FailsSchema(Top(M(r)).step)
  /\ capabilities[r].fetch # "missing"

\* C12: the race of an atom with a timer (http.fetch) has exactly one of two
\* outcomes. In time: the atom returns with the result bound to step.result,
\* nothing is thrown and no call is left pending. Timer first: the atom throws
\* the timeout error naming the op and no state changes. When the abandoned
\* call resolves later, nothing of the run changes: no state is bound, nothing
\* is thrown, the run's status and output stay. A timeout error is only ever
\* thrown when a capability was late, and never names an atom defined with
\* timeoutMs = 0.
C12_TimeoutRace ==
  /\ [](\A r \in Runs :
          /\ (capabilities[r].fetch # "slow" => \A op \in coreAtoms : TimeoutMsg(op) \notin Msgs(r))
          /\ \A op \in coreAtoms : TimeoutMsg(op) \in Msgs(r) => timeoutMs(op) > 0)
  /\ [][\A r \in Runs :
          /\ (FetchRace(r) /\ stack'[r] # stack[r]) =>
               LET f == Top(M(r))
                   inTime == /\ exc'[r] = "" /\ stack'[r] = Front(stack[r])
                             /\ ctxs'[r][f.c].state[f.step.result] = FetchResult
                             /\ abandoned'[r] = abandoned[r] /\ thrown'[r] = thrown[r]
                   timedOut == /\ exc'[r] = TimeoutMsg("http.fetch")
                               /\ ctxs'[r] = ctxs[r]
                               /\ abandoned'[r] # abandoned[r]
               IN /\ inTime # timedOut
                  /\ inTime <=> capabilities[r].fetch = "ok"
          /\ (abandoned'[r] \subseteq abandoned[r] /\ abandoned'[r] # abandoned[r]) =>
               /\ ctxs'[r] = ctxs[r] /\ exc'[r] = exc[r] /\ stack'[r] = stack[r]
               /\ status'[r] = status[r] /\ error'[r] = error[r] /\ result'[r] = result[r]
               /\ thrown'[r] = thrown[r]]_vars

\* C12 happens: an http.fetch in a try block timed out, its call resolved
\* later, and the run resolved with res bound nowhere
C12_Witness ==
  \E r \in Runs :
    /\ status[r] = "done" /\ TimeoutMsg("http.fetch") \in Msgs(r) /\ abandoned[r] = {}
    /\ \E s \in ran[r] : s.op = "http.fetch" /\ s.result = "res"
    /\ \A c \in 1..Len(ctxs[r]) : "res" \notin DOMAIN ctxs[r][c].state

\* C13: a run whose root node's op is not 'seq' has failed with the root
\* error at the call of run(): no step was handed to an atom, no atom body
\* ran, no capability was called, no call is pending, and the root context
\* still has all its fuel and an empty state.
C13_BadRootRejected ==
  \A r \in Runs : (status[r] # "idle" /\ ast[r].op # "seq") =>
    /\ status[r] = "failed" /\ error[r] = "Root AST must be 'seq'"
    /\ log[r] = <<>> /\ ran[r] = {} /\ calls[r] = <<>> /\ stack[r] = <<>> /\ thrown[r] = {}
    /\ Len(ctxs[r]) = 1 /\ ctxs[r][1].fuel = fuel0[r] /\ ctxs[r][1].state = EmptyObj
    /\ ~result[r].set

\* C13 happens: run() was called with an http.fetch node as the root, with
\* fuel and with the fetch capability there
C13_Witness ==
  \E r \in Runs :
    /\ status[r] = "failed" /\ ast[r].op = "http.fetch" /\ capabilities[r].fetch = "ok" /\ fuel0[r] > 0

\* ------------------------------------------------------------------ custom atoms

\* C14: every time the exec of an op is called that the VM has a custom atom
\* for, it is the custom atom's exec, also for the seq bodies of if, while,
\* try, scope and map.
C14_CustomAtomRuns ==
  \A r \in Runs : \A e \in impl[r] : e.op \in customAtoms => e.atom = "custom"

\* ------------------------------------------------------------------ the caching proxy

\* Run r is a run of the caching proxy
ProxyRun(r) == status[r] # "idle" /\ ast[r] \in ProxyPrograms

\* The capability calls of run r made to `cap`, in order
CallsTo(r, cap) == SelectSeq(calls[r], LAMBDA k : k.cap = cap)

\* C15: in a run of the caching proxy whose store.get resolves with a
\* non-null value, fetch is never called, and the run, once settled, has
\* resolved with an output whose result is the cached value.
C15_CacheHit ==
  \A r \in Runs : (ProxyRun(r) /\ capabilities[r].store = "hit") =>
    /\ CallsTo(r, "fetch") = <<>>
    /\ status[r] \in {"done", "failed"} =>
         (status[r] = "done" /\ result[r].set /\ result[r].val = ("result" :> CachedValue))

\* C16: a run of the caching proxy with args {url: U} whose store.get
\* resolves with null calls store.get once, then fetch once, then store.set
\* with the key U and the value fetch resolved with, and, once settled, has
\* resolved with an output whose result is that value.
C16_CacheMissThenSet ==
  \A r \in Runs :
    (ProxyRun(r) /\ ast[r] = Proxy(TRUE) /\ capabilities[r] = Caps("ok", "miss", "missing")
       /\ status[r] \in {"done", "failed"}) =>
      /\ status[r] = "done"
      /\ [i \in 1..Len(calls[r]) |-> calls[r][i].cap] = <<"store.get", "fetch", "store.set">>
      /\ calls[r][3].key = ProxyUrl.s /\ calls[r][3].value = FetchResult
      /\ result[r].set /\ result[r].val = ("result" :> FetchResult)

\* ------------------------------------------------------------------ return, termination, names

\* C17: a run in which a return step has executed (the root context's output
\* is set) settles as resolved with that output; the seqs that were pending
\* take no fuel for the steps they skip.
C17_ReturnCompletes ==
  \A r \in Runs :
    (status[r] \in {"done", "failed"} /\ ast[r].op = "seq" /\ ctxs[r][1].output.set) =>
      /\ status[r] = "done" /\ result[r] = ctxs[r][1].output
      /\ "Out of Fuel" \notin Msgs(r)

\* C18: every run that has been started eventually settles, resolved or
\* rejected.
C18_Terminates ==
  \A r \in Runs : (status[r] = "running") ~> (status[r] \in {"done", "failed"})

\* Some context on c's prototype chain has `key` as its own property
RECURSIVE Bound(_, _, _)
Bound(cs, c, key) ==
  key \in DOMAIN cs[c].state \/ (cs[c].parent # 0 /\ Bound(cs, cs[c].parent, key))

\* C19: a var.get of a name that does not begin with 'args.' binds its result
\* to the value of the nearest binding of that name on the scope chain,
\* whatever that value is, and to the name itself only when there is none.
C19_NearestBinding ==
  [][\A r \in Runs :
       (/\ status[r] = "running" /\ exc[r] = "" /\ Len(stack[r]) > 0 /\ stack'[r] # stack[r]
        /\ Top(M(r)).k = "exec" /\ Top(M(r)).step.op = "var.get" /\ ~FailsSchema(Top(M(r)).step)
        /\ Top(M(r)).step.key \notin DOMAIN ArgsSuffix) =>
         LET f == Top(M(r))
             nearest == ctxs[r][Owner(ctxs[r], f.c, f.step.key)].state[f.step.key]
         IN /\ f.step.result \in DOMAIN ctxs'[r][f.c].state
            /\ ctxs'[r][f.c].state[f.step.result] =
                 IF Bound(ctxs[r], f.c, f.step.key) THEN nearest ELSE Str(f.step.key)]_vars

\* ------------------------------------------------------------------ seq

\* The index of the first step of `steps` that throws by itself, 0 when none does
FailIndex(steps, caps) ==
  LET I == {i \in 1..Len(steps) : ExpectedError(steps[i], caps) # ""}
  IN IF I = {} THEN 0 ELSE CHOOSE i \in I : \A j \in I : i <= j

\* Run r's root is a seq whose step i throws by itself after i - 1 valid
\* var.set and var.get steps, and the run has fuel for i steps
FailCase(r, i) ==
  /\ status[r] # "idle" /\ ast[r].op = "seq" /\ "steps" \in DOMAIN ast[r]
  /\ i = FailIndex(ast[r].steps, capabilities[r]) /\ i > 0 /\ fuel0[r] >= i
  /\ \A k \in 1..(i - 1) : ast[r].steps[k].op \in {"var.set", "var.get"}

C21_InputsUnchanged ==
  \A r \in Runs : status[r] \in {"done", "failed"} => astLists[astOf[r]] = litsAtStart[r]

\* The reference evaluation of a well-formed expression: the value of an
\* operand is its literal, or the number vars binds it to, or 0; of an
\* expression in one pair of parentheses, that of its inside; of any other, the
\* operator at its rightmost operator of lowest precedence outside
\* parentheses (so operators of equal precedence group to the left) applied to
\* the values of what is left and right of it.
RefPrecedence(o) == IF o = "*" THEN 3 ELSE IF o \in {"+", "-"} THEN 2 ELSE 1

RefOperand(tok, vs) ==
  IF tok.t = "num" THEN tok.n
  ELSE IF tok.s \in DOMAIN vs /\ vs[tok.s].t = "number" THEN vs[tok.s].n ELSE 0

RefApply(o, a, b) ==
  CASE o = "+" -> a + b
    [] o = "-" -> a - b
    [] o = "*" -> a * b
    [] o = ">" -> IF a > b THEN 1 ELSE 0
    [] o = "<" -> IF a < b THEN 1 ELSE 0
    [] o = ">=" -> IF a >= b THEN 1 ELSE 0
    [] o = "<=" -> IF a <= b THEN 1 ELSE 0
    [] o = "==" -> IF a = b THEN 1 ELSE 0
    [] o = "!=" -> IF a # b THEN 1 ELSE 0

\* How many parentheses are open before token i
RefDepth(toks, i) ==
  Cardinality({j \in 1..(i - 1) : toks[j] = TOp("(")}) - Cardinality({j \in 1..(i - 1) : toks[j] = TOp(")")})

RECURSIVE RefEval(_, _)
RefEval(toks, vs) ==
  LET top == {i \in 1..Len(toks) : toks[i].t = "op" /\ toks[i].s \in BinOps /\ RefDepth(toks, i) = 0}
  IN IF Len(toks) = 1 THEN RefOperand(toks[1], vs)
     ELSE IF top = {} THEN RefEval(SubSeq(toks, 2, Len(toks) - 1), vs)
     ELSE LET low == {i \in top : \A j \in top : RefPrecedence(toks[i].s) <= RefPrecedence(toks[j].s)}
              i == CHOOSE k \in low : \A j \in low : j <= k
          IN RefApply(toks[i].s, RefEval(SubSeq(toks, 1, i - 1), vs), RefEval(SubSeq(toks, i + 1, Len(toks)), vs))

\* C22: evaluateExpression of a well-formed expression returns the value of
\* the reference evaluation, in which an identifier that vars does not bind
\* to a number is 0.
C22_ExpressionValue ==
  (exprValue.done /\ expr \in WellFormedExprs) =>
    (~exprValue.err /\ exprValue.v = RefEval(expr, exprVars))

\* The same, for vars that bind x to a number or to a value that Number()
\* does not convert (x missing, 8, 'a', null)
C22_NumbersOnly ==
  (exprValue.done /\ expr \in WellFormedExprs /\ exprVars # [x |-> Bool(TRUE)]) =>
    (~exprValue.err /\ exprValue.v = RefEval(expr, exprVars))

\* C23: evaluateExpression throws for every imbalanced expression (an
\* operator missing an operand, two operands with no operator between them,
\* an unmatched parenthesis), and returns 0 for an expression with no tokens.
C23_ExpressionErrors ==
  exprValue.done =>
    /\ expr \in ImbalancedExprs => exprValue.err
    /\ expr = <<>> => (~exprValue.err /\ exprValue.v = 0)

\* The same, for a missing operand, an unmatched '(' and no tokens only
C23_UnderflowOnly ==
  exprValue.done =>
    /\ expr \in MissingOperandExprs \cup UnmatchedOpenExprs => exprValue.err
    /\ expr = <<>> => (~exprValue.err /\ exprValue.v = 0)
    /\ expr \in AdjacentOperandExprs \cup UnmatchedCloseExprs => ~exprValue.err

\* C24: while a map runs the body of an item, the body's context is a child
\* of the map's context in which `as` is bound to that item; when the body
\* has returned, the entry map adds to its list is the value bound to
\* `result` in that child context itself, or null when the body bound none;
\* and after the last item the list, one entry per item in items order, is
\* what map returns.
C24_MapResult ==
  /\ [](\A r \in Runs : \A j \in 1..(Len(stack[r]) - 1) :
          stack[r][j].k = "map" =>
            LET f == stack[r][j]
            IN /\ Len(f.results) < Len(f.step.items)
               /\ ctxs[r][f.child].parent = f.c
               /\ f.step.as \in DOMAIN ctxs[r][f.child].state
               /\ ctxs[r][f.child].state[f.step.as] = f.step.items[Len(f.results) + 1])
  /\ [][\A r \in Runs :
          (/\ status[r] = "running" /\ exc[r] = "" /\ Len(stack[r]) > 0 /\ stack'[r] # stack[r]
           /\ Top(M(r)).k = "map") =>
            LET f == Top(M(r))
                n == Len(stack[r])
                own == ctxs[r][f.child].state
                list == Append(f.results, IF "result" \in DOMAIN own THEN own["result"] ELSE Null)
            IN IF Len(list) = Len(f.step.items)
                 THEN /\ Len(stack'[r]) = n - 1
                      /\ "result" \in DOMAIN f.step =>
                           ctxs'[r][f.c].state[f.step.result] = Arr(list)
                 ELSE /\ Len(stack'[r]) = n + 1
                      /\ stack'[r][n].k = "map" /\ stack'[r][n].results = list]_vars

\* C24, as the code behaves: the same statement with the entry read through
\* the child context's chain of enclosing contexts (a `result` bound in an
\* enclosing context is the entry of a body that bound none).
C24_InheritedResult ==
  /\ [](\A r \in Runs : \A j \in 1..(Len(stack[r]) - 1) :
          stack[r][j].k = "map" =>
            LET f == stack[r][j]
            IN /\ Len(f.results) < Len(f.step.items)
               /\ ctxs[r][f.child].parent = f.c
               /\ f.step.as \in DOMAIN ctxs[r][f.child].state
               /\ ctxs[r][f.child].state[f.step.as] = f.step.items[Len(f.results) + 1])
  /\ [][\A r \in Runs :
          (/\ status[r] = "running" /\ exc[r] = "" /\ Len(stack[r]) > 0 /\ stack'[r] # stack[r]
           /\ Top(M(r)).k = "map") =>
            LET f == Top(M(r))
                n == Len(stack[r])
                found == Lookup(ctxs[r], f.child, "result")
                list == Append(f.results, IF Nullish(found) THEN Null ELSE found)
            IN IF Len(list) = Len(f.step.items)
                 THEN /\ Len(stack'[r]) = n - 1
                      /\ "result" \in DOMAIN f.step =>
                           ctxs'[r][f.c].state[f.step.result] = Arr(list)
                 ELSE /\ Len(stack'[r]) = n + 1
                      /\ stack'[r][n].k = "map" /\ stack'[r][n].results = list]_vars

\* the run r takes a step of its own
Moves(r) == stack'[r] # stack[r] \/ exc'[r] # exc[r] \/ status'[r] # status[r]

\* the step the run r is about to take is an iteration of a seq's for loop
SeqIteration(r) ==
  /\ status[r] = "running" /\ exc[r] = "" /\ Len(stack[r]) > 0
  /\ stack[r][Len(stack[r])].k = "seq"
  /\ stack[r][Len(stack[r])].i <= Len(stack[r][Len(stack[r])].step.steps)

\* C25: no context of a run ever holds more fuel than the run was started
\* with; and in every step of a run the contexts it had stay, an iteration
\* of a seq lowers the fuel of the seq's context by exactly one, the fuel of
\* every other context (and of every context in any other step) is
\* unchanged, and a context made in the step starts with the fuel its parent
\* holds then (the root context with the run's initial fuel).
C25_FuelMonotone ==
  /\ [](\A r \in Runs : \A c \in DOMAIN ctxs[r] : ctxs[r][c].fuel <= fuel0[r])
  /\ [][\A r \in Runs : Moves(r) =>
          /\ Len(ctxs'[r]) >= Len(ctxs[r])
          /\ \A c \in DOMAIN ctxs[r] :
               ctxs'[r][c].fuel =
                 IF SeqIteration(r) /\ c = stack[r][Len(stack[r])].c
                   THEN ctxs[r][c].fuel - 1
                   ELSE ctxs[r][c].fuel
          /\ \A c \in DOMAIN ctxs'[r] \ DOMAIN ctxs[r] :
               ctxs'[r][c].fuel =
                 IF ctxs'[r][c].parent = 0 THEN fuel0'[r]
                 ELSE ctxs'[r][ctxs'[r][c].parent].fuel]_vars

\* C25 happens: a child context has used fuel of its own, after its parent
\* had used some of the run's fuel
C25_Witness ==
  \E r \in Runs : \E c \in DOMAIN ctxs[r] :
    /\ ctxs[r][c].parent # 0
    /\ ctxs[r][c].fuel < ctxs[r][ctxs[r][c].parent].fuel
    /\ ctxs[r][ctxs[r][c].parent].fuel < fuel0[r]

====
